---- MODULE Spec2Model ----
(***************************************************************************)
(* rust9cc: tokenize (src/src/token.rs), parse_into_ast (src/src/parse.rs) *)
(* and gen / gen_main (src/src/lib.rs), driven as in src/src/main.rs, and  *)
(* the stack machine the emitted assembly runs on.                         *)
(*                                                                         *)
(* A string is a sequence of one-character strings.  u64 and the 64-bit    *)
(* registers are modelled with WordBits bits.                              *)
(***************************************************************************)
EXTENDS Integers, Sequences, FiniteSets, TLC

\* ------------------------------------------------------------------ bounds

\* Longest input drawn from the full character alphabet.
MaxLen == 3
\* Most tokens (Eof not counted) of an input drawn token by token.
MaxToks == 5
\* Longest all-digit input.
MaxDigits == 4
\* Operands of the longest chain "1 op 2 op 3 ...".
MaxOperands == 4
\* Width of u64 and of a register, in bits.
WordBits == 10

RECURSIVE Pow2(_)
Pow2(n) == IF n = 0 THEN 1 ELSE 2 * Pow2(n - 1)

\* u64::MAX + 1
Modulus == Pow2(WordBits)

\* ------------------------------------------------------------ token.rs

BASE10 == 10

Digits == <<"0", "1", "2", "3", "4", "5", "6", "7", "8", "9">>

is_digit(c) == \E i \in 1..BASE10 : Digits[i] = c

DigitValue(c) == (CHOOSE i \in 1..BASE10 : Digits[i] = c) - 1

Loc(line, col) == [line |-> line, col |-> col]

Num(n) == [tag |-> "Num", num |-> n]

Kind(tag) == [tag |-> tag]

Token(kind, loc) == [kind |-> kind, loc |-> loc]

\* InputReader::new
new_reader(in) == [reader |-> in, loc |-> Loc(0, 0)]

len(r) == Len(r.reader)

starts_with(r, pat) == len(r) >= Len(pat) /\ SubSeq(r.reader, 1, Len(pat)) = pat

Contains(s, c) == \E i \in 1..Len(s) : s[i] = c

\* InputReader::advance, for n <= len(r) (split_at panics beyond that).
advance(r, n) ==
    LET head_ == SubSeq(r.reader, 1, n)
        tail_ == SubSeq(r.reader, n + 1, Len(r.reader))
    IN  [reader |-> tail_,
         loc    |-> IF Contains(head_, "\n")
                    THEN Loc(r.loc.line + 1, 0)
                    ELSE Loc(r.loc.line, r.loc.col + 1)]

None == [tag |-> "None"]

Some(v) == [tag |-> "Some", v |-> v]

\* InputReader::peek
peek(r) == IF len(r) = 0 THEN None ELSE Some(r.reader[1])

\* InputReader::head
head(r, n) == IF len(r) < n THEN None ELSE Some(SubSeq(r.reader, 1, n))

\* str::parse::<u64> of a string of digits: Err on the empty string and on a
\* value above u64::MAX.
RECURSIVE ParseDigits(_, _)
ParseDigits(buf, acc) ==
    IF buf = <<>> THEN [ok |-> TRUE, num |-> acc]
    ELSE LET v == acc * BASE10 + DigitValue(Head(buf))
         IN  IF v >= Modulus THEN [ok |-> FALSE]
             ELSE ParseDigits(Tail(buf), v)

parse_u64(buf) == IF buf = <<>> THEN [ok |-> FALSE] ELSE ParseDigits(buf, 0)

\* The while loop of InputReader::consume_number: the reader after the
\* maximal run of digits, and the digits.
RECURSIVE ConsumeDigits(_, _)
ConsumeDigits(r, buf) ==
    IF peek(r) = None \/ ~is_digit(r.reader[1])
    THEN [r |-> r, buf |-> buf]
    ELSE ConsumeDigits(advance(r, 1), Append(buf, r.reader[1]))

\* InputReader::consume_number: the reader is advanced whether or not the
\* digits parse.
consume_number(r) ==
    LET c == ConsumeDigits(r, <<>>)
    IN  [r |-> c.r, res |-> parse_u64(c.buf)]

\* The match on head(2) in tokenize.
Op2Kind(h) ==
    CASE h = <<"=", "=">> -> Some(Kind("Eq"))
      [] h = <<"!", "=">> -> Some(Kind("Neq"))
      [] h = <<"<", "=">> -> Some(Kind("Leq"))
      [] h = <<">", "=">> -> Some(Kind("Geq"))
      [] OTHER -> None

\* The match on head(1) in tokenize.
Op1Kind(h) ==
    CASE h = <<"+">> -> Some(Kind("Plus"))
      [] h = <<"-">> -> Some(Kind("Minus"))
      [] h = <<"*">> -> Some(Kind("Mul"))
      [] h = <<"/">> -> Some(Kind("Div"))
      [] h = <<"(">> -> Some(Kind("LParen"))
      [] h = <<")">> -> Some(Kind("RParen"))
      [] h = <<"<">> -> Some(Kind("Lt"))
      [] h = <<">">> -> Some(Kind("Gt"))
      [] OTHER -> None

\* Which rule of the loop body of tokenize applies at reader r.
MatchesOp2(r) == head(r, 2) # None /\ Op2Kind(head(r, 2).v) # None

MatchesOp1(r) == head(r, 1) # None /\ Op1Kind(head(r, 1).v) # None

\* ------------------------------------------------ token.rs: the cursor

\* The Peekable token iterator is the token sequence toks and the index pos
\* of the next token; peek is None once pos is past the end.
peek_token(toks, pos) == IF pos > Len(toks) THEN None ELSE Some(toks[pos])

\* consume: TRUE iff the current token has the expected kind; the caller
\* then continues at pos + 1.
consume(expected_kind, toks, pos) ==
    peek_token(toks, pos) # None /\ toks[pos].kind = expected_kind

Ok(node, pos) == [ok |-> TRUE, node |-> node, pos |-> pos]

Err(err, pos) == [ok |-> FALSE, err |-> err, pos |-> pos]

\* expect
expect(expected_kind, toks, pos) ==
    IF peek_token(toks, pos) = None THEN Err([msg |-> "Not peekable."], pos)
    ELSE IF toks[pos].kind # expected_kind
    THEN Err([msg |-> "Expect", expected |-> expected_kind, got |-> toks[pos].kind], pos)
    ELSE Ok(None, pos + 1)

\* expect_number taking the end of the input for the number 0.
expect_number_default(toks, pos) ==
    IF peek_token(toks, pos) = None THEN Err([msg |-> "Not peekable."], pos)
    ELSE IF toks[pos].kind.tag = "Num"
    THEN Ok(toks[pos].kind.num, pos + 1)
    ELSE IF toks[pos].kind.tag = "Eof"
    THEN Ok(0, pos)
    ELSE Err([msg |-> "Expected num", got |-> toks[pos].kind], pos)

\* expect_number: node holds the number.
expect_number(toks, pos) ==
    IF peek_token(toks, pos) = None THEN Err([msg |-> "Not peekable."], pos)
    ELSE IF toks[pos].kind.tag = "Num"
    THEN Ok(toks[pos].kind.num, pos + 1)
    ELSE Err([msg |-> "Expected num", got |-> toks[pos].kind], pos)

\* ------------------------------------------------------------ parse.rs

\* Node::new
Node(kind, lhs, rhs) == [kind |-> kind, lhs |-> lhs, rhs |-> rhs]

\* Node::new_num
new_num(num) == Node(Num(num), None, None)

\* Node::make_ref
make_ref(node) == Some(node)

RECURSIVE expr(_, _), expr_loop(_, _, _), expr_fold(_, _, _, _)
RECURSIVE equality(_, _), equality_loop(_, _, _), equality_fold(_, _, _, _)
RECURSIVE relational(_, _), relational_loop(_, _, _), relational_fold(_, _, _, _)
RECURSIVE add(_, _), add_loop(_, _, _), add_fold(_, _, _, _)
RECURSIVE mul(_, _), mul_loop(_, _, _), mul_fold(_, _, _, _)
RECURSIVE unary(_, _), primary(_, _)

\* expr, after its operand r of the operator kind: r's error (the ?), or the
\* new parent node and the loop again.
expr_fold(toks, kind, node, r) ==
    IF ~r.ok THEN r
    ELSE expr_loop(toks, Node(kind, make_ref(node), make_ref(r.node)), r.pos)

\* The loop of expr.
expr_loop(toks, node, pos) ==
    IF consume(Kind("Plus"), toks, pos)
    THEN expr_fold(toks, Kind("Add"), node, equality(toks, pos + 1))
    ELSE IF consume(Kind("Minus"), toks, pos)
    THEN expr_fold(toks, Kind("Sub"), node, equality(toks, pos + 1))
    ELSE Ok(node, pos)

\* expr, after its first operand r.
expr_first(toks, r) == IF ~r.ok THEN r ELSE expr_loop(toks, r.node, r.pos)

\* expr: equality, then a loop over "+" and "-".
expr(toks, pos) == expr_first(toks, equality(toks, pos))

\* equality, after its operand r of the operator kind: r's error (the ?), or the
\* new parent node and the loop again.
equality_fold(toks, kind, node, r) ==
    IF ~r.ok THEN r
    ELSE equality_loop(toks, Node(kind, make_ref(node), make_ref(r.node)), r.pos)

\* The loop of equality.
equality_loop(toks, node, pos) ==
    IF consume(Kind("Eq"), toks, pos)
    THEN equality_fold(toks, Kind("Eq"), node, relational(toks, pos + 1))
    ELSE IF consume(Kind("Neq"), toks, pos)
    THEN equality_fold(toks, Kind("Neq"), node, relational(toks, pos + 1))
    ELSE Ok(node, pos)

\* equality, after its first operand r.
equality_first(toks, r) == IF ~r.ok THEN r ELSE equality_loop(toks, r.node, r.pos)

\* equality = relational ("==" relational | "!=" relational)*
equality(toks, pos) == equality_first(toks, relational(toks, pos))

\* relational, after its operand r of the operator kind: r's error (the ?), or the
\* new parent node and the loop again.
relational_fold(toks, kind, node, r) ==
    IF ~r.ok THEN r
    ELSE relational_loop(toks, Node(kind, make_ref(node), make_ref(r.node)), r.pos)

\* The loop of relational.
relational_loop(toks, node, pos) ==
    IF consume(Kind("Lt"), toks, pos)
    THEN relational_fold(toks, Kind("Lt"), node, add(toks, pos + 1))
    ELSE IF consume(Kind("Leq"), toks, pos)
    THEN relational_fold(toks, Kind("Leq"), node, add(toks, pos + 1))
    ELSE IF consume(Kind("Gt"), toks, pos)
    THEN relational_fold(toks, Kind("Gt"), node, add(toks, pos + 1))
    ELSE IF consume(Kind("Geq"), toks, pos)
    THEN relational_fold(toks, Kind("Geq"), node, add(toks, pos + 1))
    ELSE Ok(node, pos)

\* relational, after its first operand r.
relational_first(toks, r) == IF ~r.ok THEN r ELSE relational_loop(toks, r.node, r.pos)

\* relational = add ("<" add | "<=" add | ">" add | ">=" add)*
relational(toks, pos) == relational_first(toks, add(toks, pos))

\* add without its loop: mul (("+" | "-") mul)?
add_fold_once(toks, kind, node, r) ==
    IF ~r.ok THEN r
    ELSE Ok(Node(kind, make_ref(node), make_ref(r.node)), r.pos)

\* add, after its operand r of the operator kind: r's error (the ?), or the
\* new parent node and the loop again.
add_fold(toks, kind, node, r) ==
    IF ~r.ok THEN r
    ELSE add_loop(toks, Node(kind, make_ref(node), make_ref(r.node)), r.pos)

\* add with right recursion: the right operand is the rest of the chain.
add_right(kind, node, r) ==
    IF ~r.ok THEN r ELSE Ok(Node(kind, make_ref(node), make_ref(r.node)), r.pos)

add_loop_right(toks, node, pos) ==
    IF consume(Kind("Plus"), toks, pos)
    THEN add_right(Kind("Add"), node, add(toks, pos + 1))
    ELSE IF consume(Kind("Minus"), toks, pos)
    THEN add_right(Kind("Sub"), node, add(toks, pos + 1))
    ELSE Ok(node, pos)

\* add taking its right operands one level too low, where "*" does not bind.
add_loop_unary(toks, node, pos) ==
    IF consume(Kind("Plus"), toks, pos)
    THEN add_fold(toks, Kind("Add"), node, unary(toks, pos + 1))
    ELSE IF consume(Kind("Minus"), toks, pos)
    THEN add_fold(toks, Kind("Sub"), node, unary(toks, pos + 1))
    ELSE Ok(node, pos)

\* The loop of add.
add_loop(toks, node, pos) ==
    IF consume(Kind("Plus"), toks, pos)
    THEN add_fold(toks, Kind("Add"), node, mul(toks, pos + 1))
    ELSE IF consume(Kind("Minus"), toks, pos)
    THEN add_fold(toks, Kind("Sub"), node, mul(toks, pos + 1))
    ELSE Ok(node, pos)

\* add, after its first operand r.
add_first(toks, r) == IF ~r.ok THEN r ELSE add_loop(toks, r.node, r.pos)

\* add = mul ("+" mul | "-" mul)*
add(toks, pos) == add_first(toks, mul(toks, pos))

\* mul, after its operand r of the operator kind: r's error (the ?), or the
\* new parent node and the loop again.
mul_fold(toks, kind, node, r) ==
    IF ~r.ok THEN r
    ELSE mul_loop(toks, Node(kind, make_ref(node), make_ref(r.node)), r.pos)

\* The loop of mul.
mul_loop(toks, node, pos) ==
    IF consume(Kind("Mul"), toks, pos)
    THEN mul_fold(toks, Kind("Mul"), node, unary(toks, pos + 1))
    ELSE IF consume(Kind("Div"), toks, pos)
    THEN mul_fold(toks, Kind("Div"), node, unary(toks, pos + 1))
    ELSE Ok(node, pos)

\* mul, after its first operand r.
mul_first(toks, r) == IF ~r.ok THEN r ELSE mul_loop(toks, r.node, r.pos)

\* mul = unary ("*" unary | "/" unary)*
mul(toks, pos) == mul_first(toks, unary(toks, pos))

\* unary, after the primary r that follows "-".
unary_minus(r) ==
    IF ~r.ok THEN r
    ELSE Ok(Node(Kind("Sub"), make_ref(new_num(0)), make_ref(r.node)), r.pos)

\* unary taking any number of signs: ("+" | "-") unary | primary.
unary_signs(toks, pos) ==
    IF consume(Kind("Plus"), toks, pos) THEN unary(toks, pos + 1)
    ELSE IF consume(Kind("Minus"), toks, pos) THEN unary_minus(unary(toks, pos + 1))
    ELSE primary(toks, pos)

\* unary = ("+" | "-")? primary
unary(toks, pos) ==
    IF consume(Kind("Plus"), toks, pos) THEN primary(toks, pos + 1)
    ELSE IF consume(Kind("Minus"), toks, pos) THEN unary_minus(primary(toks, pos + 1))
    ELSE primary(toks, pos)

\* primary, after expect(RParen) returned e: the node of the expression r.
primary_close(r, e) == IF ~e.ok THEN e ELSE Ok(r.node, e.pos)

\* primary, after the expression r that follows "(".
primary_paren(toks, r) ==
    IF ~r.ok THEN r ELSE primary_close(r, expect(Kind("RParen"), toks, r.pos))

\* primary, after expect_number returned n.
primary_num(n) == IF ~n.ok THEN n ELSE Ok(new_num(n.node), n.pos)

\* primary = num | "(" expr ")"
primary(toks, pos) ==
    IF consume(Kind("LParen"), toks, pos) THEN primary_paren(toks, expr(toks, pos + 1))
    ELSE primary_num(expect_number(toks, pos))

\* parse_into_ast without the look at the token after the expression.
parse_end_unchecked(toks, r) ==
    IF ~r.ok THEN [tag |-> "Err", err |-> r.err, pos |-> r.pos]
    ELSE [tag |-> "Ok", node |-> r.node, pos |-> r.pos]

\* parse_into_ast taking the Eof off the cursor, as expect would, where the
\* code only peeks at it.
parse_end_consuming(toks, r) ==
    IF ~r.ok THEN [tag |-> "Err", err |-> r.err, pos |-> r.pos]
    ELSE IF peek_token(toks, r.pos) = None THEN [tag |-> "Panic", pos |-> r.pos]
    ELSE IF toks[r.pos].kind # Kind("Eof")
    THEN [tag |-> "Err", err |-> [msg |-> "Unexpected token", token |-> toks[r.pos]],
          pos |-> r.pos]
    ELSE [tag |-> "Ok", node |-> r.node, pos |-> r.pos + 1]

\* parse_into_ast, after expr returned r.
parse_end(toks, r) ==
    IF ~r.ok THEN [tag |-> "Err", err |-> r.err, pos |-> r.pos]
    ELSE IF peek_token(toks, r.pos) = None THEN [tag |-> "Panic", pos |-> r.pos]
    ELSE IF toks[r.pos].kind # Kind("Eof")
    THEN [tag |-> "Err", err |-> [msg |-> "Unexpected token", token |-> toks[r.pos]],
          pos |-> r.pos]
    ELSE [tag |-> "Ok", node |-> r.node, pos |-> r.pos]

\* parse_into_ast: Ok(node), Err(err), or the panic of unwrap on a peek
\* that found no token.  pos is where the cursor is left.
parse_into_ast(toks) == parse_end(toks, expr(toks, 1))

\* -------------------------------------------------------------- lib.rs

Line(text) == [op |-> text]

PushImm(num) == [op |-> "push", imm |-> num]

GenOk(lines) == [ok |-> TRUE, out |-> lines]

GenErr(lines, msg) == [ok |-> FALSE, out |-> lines, err |-> msg]

\* gen_main: the lines printed, in order, and whether it returned Ok.  The
\* lines printed before an Err stay printed.
RECURSIVE gen_main(_)
gen_main(node) ==
    IF node.kind.tag = "Num" THEN GenOk(<<PushImm(node.kind.num)>>)
    ELSE IF node.lhs = None THEN GenErr(<<>>, "Expect non null lhs, but is null.")
    ELSE LET l == gen_main(node.lhs.v)
         IN  IF ~l.ok THEN l
             ELSE IF node.rhs = None
             THEN GenErr(l.out, "Expect non null rhs, but is null.")
             ELSE LET r == gen_main(node.rhs.v)
                      pops == l.out \o r.out \o <<Line("pop rdi"), Line("pop rax")>>
                  IN  IF ~r.ok THEN GenErr(l.out \o r.out, r.err)
                      ELSE CASE node.kind.tag = "Add" ->
                                  GenOk(pops \o <<Line("add rax, rdi"), Line("push rax")>>)
                             [] node.kind.tag = "Sub" ->
                                  GenOk(pops \o <<Line("sub rax, rdi"), Line("push rax")>>)
                             [] node.kind.tag = "Mul" ->
                                  GenOk(pops \o <<Line("imul rax, rdi"), Line("push rax")>>)
                             [] node.kind.tag = "Div" ->
                                  GenOk(pops \o <<Line("cqo"), Line("idiv rdi"), Line("push rax")>>)
                             [] OTHER ->
                                  GenErr(pops, "Expected binary operator")

Prologue == <<Line(".intel_syntax noprefix"), Line(".globl main"), Line("main:")>>

Epilogue == <<Line("pop rax"), Line("ret")>>

\* gen
gen(node) ==
    LET g == gen_main(node)
    IN  IF ~g.ok THEN GenErr(Prologue \o g.out, g.err)
        ELSE GenOk(Prologue \o g.out \o Epilogue)

\* ---------------------------------------------------------------- inputs

\* Every character class of tokenize: digits, the space, the operator
\* characters, "=" and "!" (operators only in a pair), and "&" (no rule).
Alphabet == {"0", "1", "2", " ", "+", "-", "*", "/", "(", ")", "<", ">", "=", "!", "&"}

\* The strings over A of length at most n.
RECURSIVE Strings(_, _)
Strings(A, n) ==
    IF n = 0 THEN {<<>>}
    ELSE LET S == Strings(A, n - 1)
         IN  S \cup {Append(s, c) : s \in {t \in S : Len(t) = n - 1}, c \in A}

ShortInputs == Strings(Alphabet, MaxLen)

\* All-digit strings, leading zeros and values above u64::MAX among them, alone
\* or followed by one more character.
DigitInputs ==
    {d \o t : d \in Strings({"0", "1", "9"}, MaxDigits) \ {<<>>},
              t \in {<<>>, <<"+">>, <<"&">>}}

\* The inputs of the tests of token.rs and the examples of the documentation.
TestInputs == {
    <<"(", "2", ")">>,
    <<" ", " ", "2", " ", "*", " ", "(", "1", "+", "2", "3", ")", " ", "-", " ", "4", "5", "6", " ", "/", " ", "7">>,
    <<"=", "=", " ", "!", "=", " ", "<", "=", " ", ">", "=", " ", "<", " ", ">">>,
    <<"1", " ", "&", " ", "2">>,
    <<"1", "-", "2", "-", "3">>,
    <<"1", "+", "2", "*", "3">>,
    <<"(", "1", "+", "2", ")", "*", "3">>,
    <<"-", "5">>,
    <<"1", " ", "(", "2", ")">>,
    <<"1", "+">>}

\* The text of every operator token.
BinaryOps ==
    {<<"=", "=">>, <<"!", "=">>, <<"<">>, <<"<", "=">>, <<">">>, <<">", "=">>,
     <<"+">>, <<"-">>, <<"*">>, <<"/">>}

OpLexemes == BinaryOps \cup {<<"(">>, <<")">>}

\* The token a lexeme stands for.
LexemeToken(x) ==
    Token(IF is_digit(x[1]) THEN Num(DigitValue(x[1]))
          ELSE IF Len(x) = 2 THEN Op2Kind(x).v ELSE Op1Kind(x).v,
          Loc(0, 0))

LexemeTokens(xs) == [i \in 1..Len(xs) |-> LexemeToken(xs[i])]

\* The lexemes separated by single spaces.
RECURSIVE Join(_)
Join(xs) ==
    IF xs = <<>> THEN <<>>
    ELSE IF Len(xs) = 1 THEN xs[1]
    ELSE xs[1] \o <<" ">> \o Join(Tail(xs))

\* The parser reads the tokens left to right and stops at the first one it
\* cannot use, so an input is decided by its tokens up to that one.  xs can be
\* continued when the parser, given xs alone, runs out of tokens.
CanContinue(xs) ==
    LET r == parse_into_ast(LexemeTokens(xs))
    IN  r.tag = "Panic" \/ (r.tag = "Err" /\ r.err.msg = "Not peekable.")

\* The sequences of n lexemes all of whose proper prefixes can be continued.
\* The parser copies a number and never looks at it, so the number at
\* position i is i: every operand of an input is then a different number.
RECURSIVE LexemeSeqs(_)
LexemeSeqs(n) ==
    IF n = 0 THEN {<<>>}
    ELSE {Append(xs, x) : xs \in {ys \in LexemeSeqs(n - 1) : CanContinue(ys)},
                          x \in OpLexemes \cup {<<Digits[n + 1]>>}}

TokenInputs == UNION {{Join(xs) : xs \in LexemeSeqs(n)} : n \in 1..MaxToks}

\* "1 op 2 op 3 ..." with n operands, for every choice of the operators.
RECURSIVE Chains(_)
Chains(n) ==
    IF n = 1 THEN {<< <<"1">> >>}
    ELSE {c \o <<o, <<Digits[n + 1]>> >> : c \in Chains(n - 1), o \in BinaryOps}

ChainInputs == {Join(c) : c \in Chains(MaxOperands)}

\* "(a op1 b) op2 c" and "a op1 (b op2 c)" for every pair of binary operators.
ParenInputs ==
    {Join(<< <<"(">>, <<"2">>, o1, <<"3">>, <<")">>, o2, <<"0">> >>) : o1 \in BinaryOps, o2 \in BinaryOps}
    \cup
    {Join(<< <<"2">>, o1, <<"(">>, <<"3">>, o2, <<"0">>, <<")">> >>) : o1 \in BinaryOps, o2 \in BinaryOps}

Inputs ==
    ShortInputs \cup DigitInputs \cup TestInputs \cup TokenInputs \cup ChainInputs
        \cup ParenInputs

\* ----------------------------------------------------------- the machine

\* A register or stack slot holds a word: 0 .. Modulus - 1, two's complement.
Wrap(x) == x % Modulus

ToSigned(v) == IF v >= Modulus \div 2 THEN v - Modulus ELSE v

Abs(x) == IF x < 0 THEN -x ELSE x

\* Signed division, the quotient rounded toward zero.
TruncDiv(a, b) ==
    IF (a < 0) = (b < 0) THEN Abs(a) \div Abs(b) ELSE -(Abs(a) \div Abs(b))

\* The signed value of rdx:rax.
Dividend(regs) ==
    LET v == regs.rdx * Modulus + regs.rax
    IN  IF v >= (Modulus * Modulus) \div 2 THEN v - Modulus * Modulus ELSE v

\* idiv raises a divide error on a zero divisor and on a quotient that does
\* not fit the register.
DivideError(regs) ==
    IF regs.rdi = 0 THEN TRUE
    ELSE LET q == TruncDiv(Dividend(regs), ToSigned(regs.rdi))
         IN  q < -(Modulus \div 2) \/ q >= Modulus \div 2

\* ------------------------------------------------------------- the state

VARIABLES
    input,   \* the INPUT argument of main
    pc,      \* where main is: "tokenize", "tokenized", "tokenize_err",
             \* "parsed", "run", "halted", "trap", "panic"
    reader,  \* the InputReader of tokenize
    tokens,  \* the tokens pushed so far
    error,   \* the error tokenize returned, or what panicked
    parsed,  \* what parse_into_ast returned
    asm,     \* the lines gen printed
    ip,      \* the machine: index in asm.out of the next instruction,
    stack,   \* its stack above the return address, top last,
    regs     \* and its registers

vars == <<input, pc, reader, tokens, error, parsed, asm, ip, stack, regs>>

Init ==
    /\ input \in Inputs
    /\ pc = "tokenize"
    /\ reader = new_reader(input)
    /\ tokens = <<>>
    /\ error = None
    /\ parsed = None
    /\ asm = None
    /\ ip = 0
    /\ stack = <<>>
    /\ regs = [rax |-> 0, rdi |-> 0, rdx |-> 0]

\* ------------------------------------------- tokenize, one loop iteration

\* if reader.starts_with(" ")
LexSpace ==
    /\ pc = "tokenize"
    /\ len(reader) > 0
    /\ starts_with(reader, <<" ">>)
    /\ reader' = advance(reader, 1)
    /\ UNCHANGED <<input, pc, tokens, error, parsed, asm, ip, stack, regs>>

\* "==", "!=", "<=", ">="
LexOp2 ==
    /\ pc = "tokenize"
    /\ len(reader) > 0
    /\ ~starts_with(reader, <<" ">>)
    /\ MatchesOp2(reader)
    /\ tokens' = Append(tokens, Token(Op2Kind(head(reader, 2).v).v, reader.loc))
    /\ reader' = advance(reader, 2)
    /\ UNCHANGED <<input, pc, error, parsed, asm, ip, stack, regs>>

\* The single-character rule tried without the two-character rule before it.
LexOp1_first ==
    /\ pc = "tokenize"
    /\ len(reader) > 0
    /\ ~starts_with(reader, <<" ">>)
    /\ MatchesOp1(reader)
    /\ tokens' = Append(tokens, Token(Op1Kind(head(reader, 1).v).v, reader.loc))
    /\ reader' = advance(reader, 1)
    /\ UNCHANGED <<input, pc, error, parsed, asm, ip, stack, regs>>

\* "+", "-", "*", "/", "(", ")", "<", ">"
LexOp1 ==
    /\ pc = "tokenize"
    /\ len(reader) > 0
    /\ ~starts_with(reader, <<" ">>)
    /\ ~MatchesOp2(reader)
    /\ MatchesOp1(reader)
    /\ tokens' = Append(tokens, Token(Op1Kind(head(reader, 1).v).v, reader.loc))
    /\ reader' = advance(reader, 1)
    /\ UNCHANGED <<input, pc, error, parsed, asm, ip, stack, regs>>

\* if let Ok(num) = reader.consume_number()
LexNum ==
    /\ pc = "tokenize"
    /\ len(reader) > 0
    /\ ~starts_with(reader, <<" ">>)
    /\ ~MatchesOp2(reader)
    /\ ~MatchesOp1(reader)
    /\ LET c == consume_number(reader)
       IN  /\ c.res.ok
           /\ tokens' = Append(tokens, Token(Num(c.res.num), reader.loc))
           /\ reader' = c.r
    /\ UNCHANGED <<input, pc, error, parsed, asm, ip, stack, regs>>

\* return Err(CompileError::Tokenize(reader.peek().unwrap().to_string(), loc)):
\* consume_number has failed and has moved the reader past the digits it
\* read; unwrap panics when nothing follows them.
LexError ==
    /\ pc = "tokenize"
    /\ len(reader) > 0
    /\ ~starts_with(reader, <<" ">>)
    /\ ~MatchesOp2(reader)
    /\ ~MatchesOp1(reader)
    /\ LET c == consume_number(reader)
       IN  /\ ~c.res.ok
           /\ reader' = c.r
           /\ \/ /\ peek(c.r) = None
                 /\ pc' = "panic"
                 /\ error' = [tag |-> "Panic", in |-> "tokenize"]
              \/ /\ peek(c.r) # None
                 /\ pc' = "tokenize_err"
                 /\ error' = [tag |-> "Tokenize", c |-> peek(c.r).v, loc |-> reader.loc]
    /\ UNCHANGED <<input, tokens, parsed, asm, ip, stack, regs>>

\* After the loop: push Eof and return Ok(tokens).
LexEof ==
    /\ pc = "tokenize"
    /\ len(reader) = 0
    /\ tokens' = Append(tokens, Token(Kind("Eof"), reader.loc))
    /\ pc' = "tokenized"
    /\ UNCHANGED <<input, reader, error, parsed, asm, ip, stack, regs>>

\* ------------------------------------------------------------------ main

\* parse_into_ast(tokens).unwrap()
Parse ==
    /\ pc = "tokenized"
    /\ parsed' = parse_into_ast(tokens)
    /\ \/ /\ parsed'.tag = "Ok"
          /\ pc' = "parsed"
          /\ UNCHANGED error
       \/ /\ parsed'.tag # "Ok"
          /\ pc' = "panic"
          /\ error' = [tag |-> "Panic", in |-> "parse_into_ast"]
    /\ UNCHANGED <<input, reader, tokens, asm, ip, stack, regs>>

\* gen(&root).unwrap(); the program printed is then assembled and run from
\* main:
Gen ==
    /\ pc = "parsed"
    /\ asm' = gen(parsed.node)
    /\ \/ /\ asm'.ok
          /\ pc' = "run"
          /\ ip' = Len(Prologue) + 1
          /\ UNCHANGED error
       \/ /\ ~asm'.ok
          /\ pc' = "panic"
          /\ error' = [tag |-> "Panic", in |-> "gen"]
          /\ UNCHANGED ip
    /\ UNCHANGED <<input, reader, tokens, parsed, stack, regs>>

\* ----------------------------------------------- the machine, one instruction

Fetch == asm.out[ip]

Running == pc = "run" /\ ip <= Len(asm.out)

\* push <imm>
ExecPushImm ==
    /\ Running
    /\ Fetch.op = "push"
    /\ stack' = Append(stack, Fetch.imm)
    /\ ip' = ip + 1
    /\ UNCHANGED <<input, pc, reader, tokens, error, parsed, asm, regs>>

\* pop rdi, pop rax
ExecPop ==
    /\ Running
    /\ Fetch.op \in {"pop rdi", "pop rax"}
    /\ stack # <<>>
    /\ regs' = IF Fetch.op = "pop rdi"
               THEN [regs EXCEPT !.rdi = stack[Len(stack)]]
               ELSE [regs EXCEPT !.rax = stack[Len(stack)]]
    /\ stack' = SubSeq(stack, 1, Len(stack) - 1)
    /\ ip' = ip + 1
    /\ UNCHANGED <<input, pc, reader, tokens, error, parsed, asm>>

\* add rax, rdi; sub rax, rdi; imul rax, rdi
ExecAlu ==
    /\ Running
    /\ Fetch.op \in {"add rax, rdi", "sub rax, rdi", "imul rax, rdi"}
    /\ regs' = [regs EXCEPT !.rax =
                   CASE Fetch.op = "add rax, rdi" -> Wrap(regs.rax + regs.rdi)
                     [] Fetch.op = "sub rax, rdi" -> Wrap(regs.rax - regs.rdi)
                     [] Fetch.op = "imul rax, rdi" -> Wrap(regs.rax * regs.rdi)]
    /\ ip' = ip + 1
    /\ UNCHANGED <<input, pc, reader, tokens, error, parsed, asm, stack>>

\* cqo: sign-extend rax into rdx
ExecCqo ==
    /\ Running
    /\ Fetch.op = "cqo"
    /\ regs' = [regs EXCEPT !.rdx = IF ToSigned(regs.rax) < 0 THEN Modulus - 1 ELSE 0]
    /\ ip' = ip + 1
    /\ UNCHANGED <<input, pc, reader, tokens, error, parsed, asm, stack>>

\* idiv rdi: rax, rdx := quotient, remainder of rdx:rax by rdi, both signed
ExecIdiv ==
    /\ Running
    /\ Fetch.op = "idiv rdi"
    /\ \/ /\ DivideError(regs)
          /\ pc' = "trap"
          /\ UNCHANGED <<regs, ip>>
       \/ /\ ~DivideError(regs)
          /\ LET q == TruncDiv(Dividend(regs), ToSigned(regs.rdi))
             IN  regs' = [regs EXCEPT !.rax = Wrap(q),
                                      !.rdx = Wrap(Dividend(regs) - q * ToSigned(regs.rdi))]
          /\ ip' = ip + 1
          /\ UNCHANGED pc
    /\ UNCHANGED <<input, reader, tokens, error, parsed, asm, stack>>

\* push rax
ExecPushRax ==
    /\ Running
    /\ Fetch.op = "push rax"
    /\ stack' = Append(stack, regs.rax)
    /\ ip' = ip + 1
    /\ UNCHANGED <<input, pc, reader, tokens, error, parsed, asm, regs>>

\* ret: main returns rax
ExecRet ==
    /\ Running
    /\ Fetch.op = "ret"
    /\ pc' = "halted"
    /\ UNCHANGED <<input, reader, tokens, error, parsed, asm, ip, stack, regs>>

Next ==
    \/ LexSpace
    \/ LexOp2
    \/ LexOp1
    \/ LexNum
    \/ LexError
    \/ LexEof
    \/ Parse
    \/ Gen
    \/ ExecPushImm
    \/ ExecPop
    \/ ExecAlu
    \/ ExecCqo
    \/ ExecIdiv
    \/ ExecPushRax
    \/ ExecRet

Spec == Init /\ [][Next]_vars

\* ------------------------------------------------------- reading the claims

TagAt(i) == tokens[i].kind.tag

IsNum(i) == TagAt(i) = "Num"

\* The binding level of an operator token, tightest highest; 0 for the rest.
Level(tag) ==
    CASE tag \in {"Eq", "Neq"} -> 1
      [] tag \in {"Lt", "Leq", "Gt", "Geq"} -> 2
      [] tag \in {"Plus", "Minus"} -> 3
      [] tag \in {"Mul", "Div"} -> 4
      [] OTHER -> 0

IsBinary(i) == Level(TagAt(i)) > 0

\* The node kind a binary operator token builds.
NodeKindOf(tag) ==
    CASE tag = "Plus" -> Kind("Add")
      [] tag = "Minus" -> Kind("Sub")
      [] OTHER -> Kind(tag)

\* The leaf of the number token at i, and the node of the operator token at i.
Leaf(i) == [kind |-> Num(tokens[i].kind.num), lhs |-> None, rhs |-> None]

Bin(i, l, r) == [kind |-> NodeKindOf(TagAt(i)), lhs |-> Some(l), rhs |-> Some(r)]

\* parse_into_ast has returned.
ParseReturned == parsed # None

ParsedTo(tree) == parsed.tag = "Ok" /\ parsed.node = tree

\* The tokens are exactly: tags[1], ..., tags[n], Eof, where "Op" stands for
\* any binary operator.
Shape(tags) ==
    /\ Len(tokens) = Len(tags) + 1
    /\ TagAt(Len(tokens)) = "Eof"
    /\ \A i \in 1..Len(tags) : IF tags[i] = "Op" THEN IsBinary(i) ELSE TagAt(i) = tags[i]

\* The tokens are a chain of n operands: number (operator number)* Eof.
IsChain ==
    /\ Len(tokens) >= 2
    /\ Len(tokens) % 2 = 0
    /\ TagAt(Len(tokens)) = "Eof"
    /\ \A i \in 1..(Len(tokens) - 1) : IF i % 2 = 1 THEN IsNum(i) ELSE IsBinary(i)

OneLevel == \A i, j \in 1..(Len(tokens) - 1) :
                (i % 2 = 0 /\ j % 2 = 0) => Level(TagAt(i)) = Level(TagAt(j))

\* The first n operands of a chain, folded to the left.
RECURSIVE LeftFold(_)
LeftFold(n) ==
    IF n = 1 THEN Leaf(1)
    ELSE Bin(2 * n - 2, LeftFold(n - 1), Leaf(2 * n - 1))

\* C1: a chain of operands joined by operators of one binding level parses
\* to the tree folded to the left: "a op1 b op2 c" to op2(op1(a, b), c).
C1_LeftAssociative ==
    (ParseReturned /\ IsChain /\ OneLevel) => ParsedTo(LeftFold(Len(tokens) \div 2))

\* "1 op1 2 op2 3 op3 4" with three different operators of one level, parsed.
C1_Witness ==
    /\ ParseReturned /\ IsChain /\ OneLevel
    /\ Len(tokens) = 8
    /\ Cardinality({TagAt(2), TagAt(4), TagAt(6)}) = 3
    /\ parsed.tag = "Ok"
    /\ parsed.node.lhs.v.lhs.v.kind = NodeKindOf(TagAt(2))

\* C2: of two operators the one of the higher level binds tighter, on either
\* side, and parentheses override this and leave no node of their own.
C2_Precedence ==
    ParseReturned =>
      /\ (Shape(<<"Num", "Op", "Num", "Op", "Num">>) /\ Level(TagAt(2)) < Level(TagAt(4)))
            => ParsedTo(Bin(2, Leaf(1), Bin(4, Leaf(3), Leaf(5))))
      /\ (Shape(<<"Num", "Op", "Num", "Op", "Num">>) /\ Level(TagAt(2)) > Level(TagAt(4)))
            => ParsedTo(Bin(4, Bin(2, Leaf(1), Leaf(3)), Leaf(5)))
      /\ (Shape(<<"LParen", "Num", "Op", "Num", "RParen", "Op", "Num">>)
            /\ Level(TagAt(3)) < Level(TagAt(6)))
            => ParsedTo(Bin(6, Bin(3, Leaf(2), Leaf(4)), Leaf(7)))

\* "(2 == 3) * 0", parsed to a Mul over an Eq.
C2_Witness ==
    /\ ParseReturned
    /\ Shape(<<"LParen", "Num", "Op", "Num", "RParen", "Op", "Num">>)
    /\ TagAt(3) = "Eq" /\ TagAt(6) = "Mul"
    /\ parsed.tag = "Ok"
    /\ parsed.node.kind = Kind("Mul")
    /\ parsed.node.lhs.v.kind = Kind("Eq")

\* The value of a tree computed directly, in words: + - * wrap, / is the signed
\* quotient rounded toward zero, a comparison of the signed values is 1 or 0.
Compare(tag, a, b) ==
    CASE tag = "Eq" -> a = b
      [] tag = "Neq" -> a # b
      [] tag = "Lt" -> a < b
      [] tag = "Leq" -> a <= b
      [] tag = "Gt" -> a > b
      [] tag = "Geq" -> a >= b

Apply(tag, a, b) ==
    CASE tag = "Add" -> Wrap(a + b)
      [] tag = "Sub" -> Wrap(a - b)
      [] tag = "Mul" -> Wrap(a * b)
      [] tag = "Div" -> Wrap(TruncDiv(ToSigned(a), ToSigned(b)))
      [] OTHER -> IF Compare(tag, ToSigned(a), ToSigned(b)) THEN 1 ELSE 0

RECURSIVE Eval(_)
Eval(node) ==
    IF node.kind.tag = "Num" THEN node.kind.num
    ELSE Apply(node.kind.tag, Eval(node.lhs.v), Eval(node.rhs.v))

\* No division of the tree divides by zero or leaves the signed range.
RECURSIVE HasValue(_)
HasValue(node) ==
    IF node.kind.tag = "Num" THEN TRUE
    ELSE /\ HasValue(node.lhs.v)
         /\ HasValue(node.rhs.v)
         /\ node.kind.tag = "Div" =>
               /\ Eval(node.rhs.v) # 0
               /\ ~(ToSigned(Eval(node.lhs.v)) = -(Modulus \div 2)
                      /\ ToSigned(Eval(node.rhs.v)) = -1)

\* A comparison somewhere in the tree.
RECURSIVE HasComparison(_)
HasComparison(node) ==
    IF node.kind.tag = "Num" THEN FALSE
    ELSE \/ node.kind.tag \notin {"Add", "Sub", "Mul", "Div"}
         \/ HasComparison(node.lhs.v)
         \/ HasComparison(node.rhs.v)

\* gen has been called on the parsed tree.
GenReturned == asm # None

\* The machine has run the lines of gen_main and is at the epilogue.
AtEpilogue == pc = "run" /\ ip = Len(asm.out) - Len(Epilogue) + 1

\* C3: for every tree the parser returns, gen_main emits code, and running it
\* leaves the tree's value on top of the stack.
C3_RoundTrip ==
    (GenReturned /\ HasValue(parsed.node)) =>
        /\ asm.ok
        /\ pc # "trap"
        /\ AtEpilogue => (stack # <<>> /\ stack[Len(stack)] = Eval(parsed.node))

\* What holds of C3: the round trip of the trees without a comparison.
C3_RoundTripArithmetic ==
    (GenReturned /\ HasValue(parsed.node) /\ ~HasComparison(parsed.node)) =>
        /\ asm.ok
        /\ pc # "trap"
        /\ AtEpilogue => (stack # <<>> /\ stack[Len(stack)] = Eval(parsed.node))

\* gen_main returns Err on every tree with a comparison.
C3_ComparisonRejected ==
    (GenReturned /\ HasComparison(parsed.node)) => ~asm.ok

\* Where the tokens lie in the input, read off the input and the token kinds:
\* the index of the first character at or after i that is not a space,
RECURSIVE SkipSpaces(_)
SkipSpaces(i) ==
    IF i <= Len(input) /\ input[i] = " " THEN SkipSpaces(i + 1) ELSE i

\* the length of the run of digits at i,
RECURSIVE DigitRun(_)
DigitRun(i) ==
    IF i <= Len(input) /\ is_digit(input[i]) THEN 1 + DigitRun(i + 1) ELSE 0

\* the number of characters of token k, which starts at s,
Width(k, s) ==
    CASE TagAt(k) \in {"Eq", "Neq", "Leq", "Geq"} -> 2
      [] TagAt(k) = "Num" -> DigitRun(s)
      [] TagAt(k) = "Eof" -> 0
      [] OTHER -> 1

\* and the indices (from 1) at which tokens k, k + 1, ... start when token k is
\* looked for from i on; the last entry is where the token after the last
\* one pushed would start.
RECURSIVE StartsFrom(_, _), StartsAt(_, _)
StartsFrom(k, i) == StartsAt(k, SkipSpaces(i))

StartsAt(k, s) ==
    IF k > Len(tokens) THEN <<s>> ELSE <<s>> \o StartsFrom(k + 1, s + Width(k, s))

Starts == StartsFrom(1, 1)

\* tokenize has returned Ok(tokens).
TokenizeOk == tokens # <<>> /\ TagAt(Len(tokens)) = "Eof"

\* tokenize has not returned a token sequence.
TokenizeFailed ==
    pc = "tokenize_err" \/ (pc = "panic" /\ error.in = "tokenize")

\* C4: every token tokenize returns, Eof aside, has the offset of its first
\* character as its column.
C4_TokenColumns ==
    TokenizeOk =>
        \A S \in {Starts} : \A k \in 1..(Len(tokens) - 1) : tokens[k].loc = Loc(0, S[k] - 1)

\* What holds of C4: the column is the number of tokens and spaces before
\* the token, whatever their lengths.
RECURSIVE SpacesBefore(_)
SpacesBefore(i) ==
    IF i <= 1 THEN 0
    ELSE (IF input[i - 1] = " " THEN 1 ELSE 0) + SpacesBefore(i - 1)

\* Digits of number tokens before index i.
RECURSIVE DigitsBefore(_)
DigitsBefore(i) ==
    IF i <= 1 THEN 0
    ELSE (IF is_digit(input[i - 1]) THEN 1 ELSE 0) + DigitsBefore(i - 1)

C4_ColumnsCountAdvances ==
    TokenizeOk =>
        \A S \in {Starts} : \A k \in 1..(Len(tokens) - 1) :
            tokens[k].loc =
                Loc(0, SpacesBefore(S[k]) + DigitsBefore(S[k])
                         + Cardinality({j \in 1..(k - 1) : ~IsNum(j)}))

\* The value of a string of digits.
RECURSIVE DecimalValue(_)
DecimalValue(d) ==
    IF d = <<>> THEN 0
    ELSE DecimalValue(SubSeq(d, 1, Len(d) - 1)) * 10 + DigitValue(d[Len(d)])

AllDigits(d) == d # <<>> /\ \A i \in 1..Len(d) : is_digit(d[i])

\* tokenize is done with the input.
TokenizeReturned == pc # "tokenize"

\* C5: tokenize of a non-empty string of digits returns [Num(its value), Eof].
C5_DigitString ==
    (AllDigits(input) /\ TokenizeReturned) =>
        /\ ~TokenizeFailed
        /\ Len(tokens) = 2
        /\ tokens[1].kind = Num(DecimalValue(input))
        /\ TagAt(2) = "Eof"

\* What holds of C5: the same of the strings whose value fits u64.
C5_DigitStringInRange ==
    (AllDigits(input) /\ DecimalValue(input) < Modulus /\ TokenizeReturned) =>
        /\ ~TokenizeFailed
        /\ Len(tokens) = 2
        /\ tokens[1].kind = Num(DecimalValue(input))
        /\ TagAt(2) = "Eof"

\* The index of the first character no rule matches: where the token after
\* the ones pushed would start.
FirstUnmatched == Starts[Len(tokens) + 1]

\* C6: when tokenize fails it returns TokenizeError(c, loc), loc the place of
\* the first character no rule matches and c the character there.
C6_TokenizeError ==
    TokenizeFailed =>
        /\ error.tag = "Tokenize"
        /\ error.loc = Loc(0, FirstUnmatched - 1)
        /\ error.c = input[error.loc.col + 1]

\* The token kind of a pair of characters that is a two-character operator.
TwoCharTag(a, b) ==
    CASE a = "=" /\ b = "=" -> "Eq"
      [] a = "!" /\ b = "=" -> "Neq"
      [] a = "<" /\ b = "=" -> "Leq"
      [] a = ">" /\ b = "=" -> "Geq"
      [] OTHER -> "none"

\* A two-character operator starts at index s of the input.
TwoCharAt(s) ==
    /\ s + 1 <= Len(input)
    /\ TwoCharTag(input[s], input[s + 1]) # "none"

TagsOf(toks) == [i \in 1..Len(toks) |-> toks[i].kind.tag]

TwoCharTest ==
    <<"=", "=", " ", "!", "=", " ", "<", "=", " ", ">", "=", " ", "<", " ", ">">>

\* C7: where a token starts at "==", "!=", "<=" or ">=", that token is Eq,
\* Neq, Leq or Geq and both characters are consumed with it; Lt and Gt are
\* pushed only where no "=" follows; "== != <= >= < >" gives Eq, Neq, Leq,
\* Geq, Lt, Gt, Eof.
C7_TwoCharFirst ==
    /\ \A S \in {Starts} : \A k \in 1..Len(tokens) :
          /\ TwoCharAt(S[k]) =>
                /\ TagAt(k) = TwoCharTag(input[S[k]], input[S[k] + 1])
                /\ Len(input) - len(reader) >= S[k] + 1
          /\ TagAt(k) \in {"Lt", "Gt"} =>
                ~(S[k] + 1 <= Len(input) /\ input[S[k] + 1] = "=")
    /\ (input = TwoCharTest /\ TokenizeOk) =>
          TagsOf(tokens) = <<"Eq", "Neq", "Leq", "Geq", "Lt", "Gt", "Eof">>

\* "<=" with nothing before it, just pushed as one token.
C7_Witness ==
    /\ pc = "tokenize"
    /\ Len(tokens) = 1
    /\ Len(input) >= 2
    /\ SubSeq(input, 1, 2) = <<"<", "=">>
    /\ TagAt(1) = "Leq"
    /\ len(reader) = Len(input) - 2

ZeroLeaf == [kind |-> Num(0), lhs |-> None, rhs |-> None]

Neg(tree) == [kind |-> Kind("Sub"), lhs |-> Some(ZeroLeaf), rhs |-> Some(tree)]

\* Token i is where an operand starts: first, after "(", or after an operator.
OperandPosition(i) == i = 1 \/ IsBinary(i - 1) \/ TagAt(i - 1) = "LParen"

IsSign(i) == TagAt(i) \in {"Plus", "Minus"}

\* C8: "-" before a primary p parses to Sub(Num(0), p), "+" before p to p,
\* the primary a number or parenthesised, the sign first or after a binary
\* operator; a second sign before the primary is an error.
C8_UnarySign ==
    ParseReturned =>
      /\ Shape(<<"Minus", "Num">>) => ParsedTo(Neg(Leaf(2)))
      /\ Shape(<<"Plus", "Num">>) => ParsedTo(Leaf(2))
      /\ Shape(<<"Minus", "LParen", "Num", "RParen">>) => ParsedTo(Neg(Leaf(3)))
      /\ Shape(<<"Plus", "LParen", "Num", "RParen">>) => ParsedTo(Leaf(3))
      /\ Shape(<<"Num", "Op", "Minus", "Num">>) => ParsedTo(Bin(2, Leaf(1), Neg(Leaf(4))))
      /\ Shape(<<"Num", "Op", "Plus", "Num">>) => ParsedTo(Bin(2, Leaf(1), Leaf(4)))
      /\ (\E i \in 1..(Len(tokens) - 1) :
             OperandPosition(i) /\ IsSign(i) /\ IsSign(i + 1))
            => parsed.tag = "Err"

\* "-5", parsed to Sub(Num(0), Num(5)).
C8_Witness ==
    /\ ParseReturned
    /\ input = <<"-", "5">>
    /\ ParsedTo(Neg([kind |-> Num(5), lhs |-> None, rhs |-> None]))

\* A binary operator, a sign or "(" is followed by a token no operand starts
\* with.
OperandMissing ==
    \E i \in 1..(Len(tokens) - 1) :
        /\ IsBinary(i) \/ TagAt(i) = "LParen"
        /\ TagAt(i + 1) \in {"Eof", "RParen", "Mul", "Div",
                             "Eq", "Neq", "Lt", "Leq", "Gt", "Geq"}

\* C9: when an operand is missing, parse_into_ast returns Err: no panic, no
\* tree.
C9_MissingOperand ==
    (ParseReturned /\ OperandMissing) => parsed.tag = "Err"

\* "1+": expect_number finds Eof.
C9_Witness ==
    /\ ParseReturned
    /\ Shape(<<"Num", "Plus">>)
    /\ parsed.tag = "Err"
    /\ parsed.err = [msg |-> "Expected num", got |-> Kind("Eof")]

Unexpected(i) ==
    /\ parsed.tag = "Err"
    /\ parsed.err = [msg |-> "Unexpected token", token |-> tokens[i]]

\* Where expr, run on the tokens, stops: 0 if it fails.
ExprEnd == IF expr(tokens, 1).ok THEN expr(tokens, 1).pos ELSE 0

\* C10: parse_into_ast returns Ok only with Eof after the expression, the
\* last token; a token other than Eof after the expression is returned in
\* the error, kind and location, as for a number followed by a number, "("
\* or ")".
C10_TrailingToken ==
    ParseReturned =>
      /\ parsed.tag = "Ok" => (parsed.pos = Len(tokens) /\ TagAt(parsed.pos) = "Eof")
      /\ (ExprEnd \in 1..Len(tokens) /\ TagAt(ExprEnd) # "Eof") => Unexpected(ExprEnd)
      /\ (Len(tokens) >= 2 /\ IsNum(1) /\ TagAt(2) \in {"Num", "LParen", "RParen"})
            => Unexpected(2)

\* "1 2": the error returns Num(2) at column 2.
C10_Witness ==
    /\ ParseReturned
    /\ input = <<"1", " ", "2">>
    /\ Unexpected(2)
    /\ parsed.err.token = Token(Num(2), Loc(0, 2))

\* ------------------------------------------------- gen called on a tree

\* Largest number in a leaf of a tree given to gen directly.
MaxLeaf == 1

\* One operator for each arm of the match in gen_main: a single instruction,
\* the two of Div, and the arm of everything else.
TreeKinds == {"Add", "Mul", "Div", "Lt"}

Leaves == {new_num(n) : n \in 0..MaxLeaf}

OptionOf(S) == {None} \cup {Some(t) : t \in S}

\* The trees of S, and the operator nodes over them: Node is built with any
\* Option<NodeRef> as a child, None among them.
Grow(S) == S \cup {Node(Kind(k), l, r) : k \in TreeKinds, l \in OptionOf(S), r \in OptionOf(S)}

Trees == Grow(Grow(Leaves))

\* gen(&root) of main, root any tree.
TreeInit ==
    /\ input = <<>>
    /\ pc = "parsed"
    /\ reader = new_reader(<<>>)
    /\ tokens = <<>>
    /\ error = None
    /\ \E t \in Trees : parsed = [tag |-> "Ok", node |-> t, pos |-> 1]
    /\ asm = None
    /\ ip = 0
    /\ stack = <<>>
    /\ regs = [rax |-> 0, rdi |-> 0, rdx |-> 0]

TreeNext ==
    \/ Gen
    \/ ExecPushImm
    \/ ExecPop
    \/ ExecAlu
    \/ ExecCqo
    \/ ExecIdiv
    \/ ExecPushRax
    \/ ExecRet

TreeSpec == TreeInit /\ [][TreeNext]_vars

\* Every operator node has two children and every leaf none.
RECURSIVE WellFormed(_)
WellFormed(node) ==
    IF node.kind.tag = "Num" THEN node.lhs = None /\ node.rhs = None
    ELSE /\ node.lhs # None
         /\ node.rhs # None
         /\ WellFormed(node.lhs.v)
         /\ WellFormed(node.rhs.v)

\* The lines gen_main printed: those of gen without the prologue and, when
\* gen returned Ok, without the epilogue.
Body ==
    SubSeq(asm.out, Len(Prologue) + 1,
           Len(asm.out) - (IF asm.ok THEN Len(Epilogue) ELSE 0))

\* What a line does to the depth of the stack.
StackEffect(line) ==
    CASE line.op \in {"push", "push rax"} -> 1
      [] line.op \in {"pop rdi", "pop rax"} -> -1
      [] OTHER -> 0

\* The depth, from where the lines start, after the first k of them.
RECURSIVE DepthAfter(_, _)
DepthAfter(lines, k) ==
    IF k = 0 THEN 0 ELSE DepthAfter(lines, k - 1) + StackEffect(lines[k])

IsPop(line) == line.op \in {"pop rdi", "pop rax"}

\* C11: for a tree whose operator nodes all have two children and whose
\* leaves have none, the lines gen_main prints never pop below the depth they
\* start at and end one value above it; run by the machine, no pop finds the
\* stack empty, and the pop rax of the epilogue finds exactly one value.
C11_StackDiscipline ==
    (GenReturned /\ WellFormed(parsed.node)) =>
        /\ \A b \in {Body} :
              /\ \A k \in 1..Len(b) : DepthAfter(b, k) >= 0
              /\ DepthAfter(b, Len(b)) = 1
        /\ (Running /\ IsPop(Fetch)) => stack # <<>>
        /\ AtEpilogue => Len(stack) = 1

\* What holds of C11: the same of the trees without a comparison.
C11_StackDisciplineArithmetic ==
    (GenReturned /\ WellFormed(parsed.node) /\ ~HasComparison(parsed.node)) =>
        /\ asm.ok
        /\ \A b \in {Body} :
              /\ \A k \in 1..Len(b) : DepthAfter(b, k) >= 0
              /\ DepthAfter(b, Len(b)) = 1
        /\ (Running /\ IsPop(Fetch)) => stack # <<>>
        /\ AtEpilogue => Len(stack) = 1

\* A comparison over two trees without one: the lines end at the depth they
\* started at, the two pops printed and the push not.
C11_ComparisonUnbalanced ==
    (/\ GenReturned
     /\ WellFormed(parsed.node)
     /\ parsed.node.kind.tag \notin {"Num", "Add", "Sub", "Mul", "Div"}
     /\ ~HasComparison(parsed.node.lhs.v)
     /\ ~HasComparison(parsed.node.rhs.v)) =>
        /\ ~asm.ok
        /\ DepthAfter(Body, Len(Body)) = 0

\* A stage of main has failed: tokenize returned Err (exit(1)), or an unwrap
\* panicked.
StageFailed == pc \in {"tokenize_err", "panic"}

\* The lines written to the output so far.
Output == IF asm = None THEN <<>> ELSE asm.out

\* C12: when tokenize, parse_into_ast or gen fails, gen given a tree with an
\* operator node missing a child included, no line of assembly has been
\* written: the output is the complete program or empty.
C12_AllOrNothing ==
    /\ StageFailed => Output = <<>>
    /\ Output # <<>> =>
          /\ asm.ok
          /\ SubSeq(Output, 1, Len(Prologue)) = Prologue
          /\ SubSeq(Output, Len(Output) - Len(Epilogue) + 1, Len(Output)) = Epilogue

\* A child is missing somewhere the traversal of gen_main reaches.
RECURSIVE MissingChild(_)
MissingChild(node) ==
    IF node.kind.tag = "Num" THEN FALSE
    ELSE \/ node.lhs = None
         \/ node.rhs = None
         \/ MissingChild(node.lhs.v)
         \/ MissingChild(node.rhs.v)

\* What the code does: a failure before gen leaves the output empty, and a
\* failure of gen leaves the prologue and the lines gen_main printed before
\* it failed, with no epilogue; gen fails on every tree with a missing child.
C12_PrologueBeforeFailure ==
    /\ (StageFailed /\ ~GenReturned) => Output = <<>>
    /\ (GenReturned /\ MissingChild(parsed.node)) => ~asm.ok
    /\ (GenReturned /\ ~asm.ok) =>
          /\ StageFailed
          /\ Len(Output) >= Len(Prologue)
          /\ SubSeq(Output, 1, Len(Prologue)) = Prologue
          /\ \A k \in 1..Len(Output) : Output[k].op # "ret"

\* The token a peek of the cursor yields once parse_into_ast has returned.
PeekAfterParse == peek_token(tokens, parsed.pos)

\* C13: after parse_into_ast returns Ok the cursor is exhausted: the final
\* Eof has been consumed too and a peek yields no token.
C13_CursorExhausted ==
    (ParseReturned /\ parsed.tag = "Ok") => PeekAfterParse = None

\* C13 as amended: after parse_into_ast returns Ok every token before the
\* final Eof has been consumed and the Eof has not: a peek yields the Eof,
\* the last token of the sequence, and nothing follows it.
C13_CursorAtEof ==
    (ParseReturned /\ parsed.tag = "Ok") =>
        /\ PeekAfterParse = Some(tokens[Len(tokens)])
        /\ PeekAfterParse.v.kind = Kind("Eof")
        /\ parsed.pos - 1 = Len(tokens) - 1
        /\ \A i \in 1..(parsed.pos - 1) : TagAt(i) # "Eof"
        /\ peek_token(tokens, parsed.pos + 1) = None

\* "(2)": Ok(Num(2)) with the cursor on the fourth token, the Eof.
C13_Witness ==
    /\ ParseReturned
    /\ input = <<"(", "2", ")">>
    /\ parsed.tag = "Ok"
    /\ parsed.pos = 4
    /\ PeekAfterParse = Some(Token(Kind("Eof"), Loc(0, 3)))

\* ------------------------------------------------ the InputReader alone

\* Texts of a letter, a digit and the newline, and the texts of test_reader
\* and test_multiline_reader.
ReaderTexts ==
    Strings({"a", "1", "\n"}, MaxLen)
        \cup {<<"1", "2", "3", "a", "b", "c">>, <<"a", "\n", "b", "c">>}

\* InputReader::new(input)
ReaderInit ==
    /\ input \in ReaderTexts
    /\ pc = "reader"
    /\ reader = new_reader(input)
    /\ tokens = <<>>
    /\ error = None
    /\ parsed = None
    /\ asm = None
    /\ ip = 0
    /\ stack = <<>>
    /\ regs = [rax |-> 0, rdi |-> 0, rdx |-> 0]

\* reader.advance(n), n at most the remaining length
ReaderAdvance ==
    /\ pc = "reader"
    /\ \E n \in 1..len(reader) : reader' = advance(reader, n)
    /\ UNCHANGED <<input, pc, tokens, error, parsed, asm, ip, stack, regs>>

\* reader.consume_number() at a digit
ReaderConsumeNumber ==
    /\ pc = "reader"
    /\ peek(reader) # None
    /\ is_digit(peek(reader).v)
    /\ reader' = consume_number(reader).r
    /\ UNCHANGED <<input, pc, tokens, error, parsed, asm, ip, stack, regs>>

ReaderNext ==
    \/ ReaderAdvance
    \/ ReaderConsumeNumber

ReaderSpec == ReaderInit /\ [][ReaderNext]_vars

\* The number of characters a step took off the reader, and those characters.
Taken == len(reader) - len(reader')

TakenText == SubSeq(reader.reader, 1, Taken)

\* C14: advance(n) leaves the text without its first n characters, at
\* (line + 1, 0) if those contain a newline and at (line, col + n) otherwise.
C14_Advance ==
    [][ReaderAdvance =>
          /\ reader'.reader = SubSeq(reader.reader, Taken + 1, len(reader))
          /\ reader'.loc = IF Contains(TakenText, "\n")
                           THEN Loc(reader.loc.line + 1, 0)
                           ELSE Loc(reader.loc.line, reader.loc.col + Taken)]_vars

\* What holds of C14: the same with col + 1 whatever n is.
C14_AdvanceAddsOne ==
    [][ReaderAdvance =>
          /\ reader'.reader = SubSeq(reader.reader, Taken + 1, len(reader))
          /\ reader'.loc = IF Contains(TakenText, "\n")
                           THEN Loc(reader.loc.line + 1, 0)
                           ELSE Loc(reader.loc.line, reader.loc.col + 1)]_vars

\* consume_number advances one digit at a time, so the column moves by the
\* number of digits: 3 for the 123 of test_reader.
C14_ConsumeNumberColumns ==
    [][ReaderConsumeNumber =>
          reader'.loc = Loc(reader.loc.line, reader.loc.col + Taken)]_vars

\* tokenize has just returned Ok(tokens): main is about to parse them.
Tokenized == pc = "tokenized"

\* Every cursor position of the tokens, the one past the last among them.
Positions == 1..(Len(tokens) + 1)

\* The token at pos is "+" or "-": the loop of expr would consume it.
SignAt(pos) ==
    consume(Kind("Plus"), tokens, pos) \/ consume(Kind("Minus"), tokens, pos)

IsComparison(node) == node.kind.tag \in {"Eq", "Neq", "Lt", "Leq", "Gt", "Geq"}

\* An Add, Sub, Mul or Div node of the tree has a comparison as a child.
RECURSIVE ComparisonUnderArithmetic(_)
ComparisonUnderArithmetic(node) ==
    IF node.kind.tag = "Num" THEN FALSE
    ELSE \/ /\ ~IsComparison(node)
            /\ IsComparison(node.lhs.v) \/ IsComparison(node.rhs.v)
         \/ ComparisonUnderArithmetic(node.lhs.v)
         \/ ComparisonUnderArithmetic(node.rhs.v)

NoParens == \A i \in 1..Len(tokens) : TagAt(i) \notin {"LParen", "RParen"}

\* C15: from every cursor position of every token sequence, expr returns
\* what equality returns, tree or error, with the cursor where equality
\* leaves it: after equality returns Ok the next token is neither "+" nor
\* "-", so the loop of expr consumes nothing, and without parentheses no
\* comparison becomes a child of an arithmetic node.
C15_ExprIsEquality ==
    /\ Tokenized =>
          \A pos \in Positions : \A e \in {equality(tokens, pos)} :
              /\ expr(tokens, pos) = e
              /\ e.ok => ~SignAt(e.pos)
    /\ (ParseReturned /\ parsed.tag = "Ok" /\ NoParens) =>
          ~ComparisonUnderArithmetic(parsed.node)

\* "1 + 3 - 5": equality takes both signs and stops at Eof, where expr has
\* nothing left to fold.
C15_Witness ==
    /\ Tokenized
    /\ Shape(<<"Num", "Plus", "Num", "Minus", "Num">>)
    /\ equality(tokens, 1).ok
    /\ equality(tokens, 1).pos = 6
    /\ equality(tokens, 1).node.kind = Kind("Sub")
    /\ expr(tokens, 1) = equality(tokens, 1)
    /\ equality(tokens, 3).ok
    /\ equality(tokens, 3).pos = 6

====
